---- MODULE Spec2Model ----
(***************************************************************************)
(* ThreatSynth API (Cloudflare Workers): threat ingestion, deduplicating   *)
(* upsert, asset inventory and briefing generation, as a state machine     *)
(* over the D1 store.  Every awaited store or network call is one step of  *)
(* the request that makes it.                                              *)
(***************************************************************************)
EXTENDS Integers, Sequences, FiniteSets, TLC

VARIABLES
    threats,      \* rows of table threats, in rowid order (no DELETE exists)
    assets,       \* rows of table assets, in rowid order
    briefings,    \* rows of table briefings, in rowid order
    nextAssetId,  \* AUTOINCREMENT counter of assets
    nextBriefingId, \* AUTOINCREMENT counter of briefings
    proc,         \* proc[p]: the request worker p is handling, and where it is
    prevRun       \* the last finished ingestSource call (source, feed, outcome),
                  \* forgotten when a request of another kind is handled

vars == <<threats, assets, briefings, nextAssetId, nextBriefingId, proc, prevRun>>

-----------------------------------------------------------------------------
(* Bounds of the model *)

\* the upstream feeds serve at most this many new records in total
MaxRows == 2
\* at most this many assets are ever created
MaxAssets == 1
\* the longest answer of the text generator, in words
MaxWords == 3

\* workers that handle requests
Procs == {1, 2}

-----------------------------------------------------------------------------
(* Values *)

\* SQL NULL / JS null for text values
Null == "NULL"
\* SQL NULL / JS null for cvss_score (scores are in hundredths: 980 is 9.8)
NoScore == -1
\* user_id IS NULL: the unauthenticated caller
NoUser == 0

Sources == <<"nvd", "cisa_kev", "exploitdb", "github", "shodan", "greynoise">>

SourceSet == {Sources[i] : i \in 1..Len(Sources)}

\* a text value JS treats as false: null or the empty string
Falsy(s) == s = Null \/ s = ""

Range(seq) == {seq[i] : i \in 1..Len(seq)}

-----------------------------------------------------------------------------
(* Normalizer *)

\* the thresholds themselves left to the class below
severityFromCvssStrict(score) ==
    IF score = NoScore \/ score = 0 THEN "medium"
    ELSE IF score > 900 THEN "critical"
    ELSE IF score > 700 THEN "high"
    ELSE IF score > 400 THEN "medium"
    ELSE "low"

\* the results of the two middle tests exchanged
severityFromCvssSwapped(score) ==
    IF score = NoScore \/ score = 0 THEN "medium"
    ELSE IF score >= 900 THEN "critical"
    ELSE IF score >= 700 THEN "medium"
    ELSE IF score >= 400 THEN "high"
    ELSE "low"

severityFromCvss(score) ==
    IF score = NoScore \/ score = 0 THEN "medium"
    ELSE IF score >= 900 THEN "critical"
    ELSE IF score >= 700 THEN "high"
    ELSE IF score >= 400 THEN "medium"
    ELSE "low"

\* x || null for a score
ScoreOrNull(score) == IF score = 0 THEN NoScore ELSE score

\* String.prototype.toUpperCase on the CVE identifiers the feeds carry
toUpperCase(s) ==
    CASE s = "cve-2024-0001" -> "CVE-2024-0001"
      [] OTHER -> s

\* `EDB-${edbId}`
EdbId(edbId) ==
    CASE edbId = "50001" -> "EDB-50001"
      [] edbId = "50002" -> "EDB-50002"
      [] OTHER -> "EDB-"

-----------------------------------------------------------------------------
(* Upstream records.  One shape serves the six feeds; each adapter reads   *)
(* the fields its feed carries:                                            *)
(*   shape   "bad": a null array element (nvd: an item without cve), or,   *)
(*           for exploitdb, a CSV line of fewer than 5 columns             *)
(*   id      cve.id / cveID / cve_id / entry.cve, or the CVE text found in *)
(*           an exploitdb description (Null: none)                         *)
(*   alt     github ghsa_id, exploitdb EDB id                              *)
(*   desc    description / summary text                                    *)
(*   score   baseScore / cvss.score / cvss_v3 (hundredths, NoScore: none)  *)
(*   label   github severity label                                         *)
(*   vendor, product   from the CPE string or the package (<<>>: none)     *)
(*   epss    FIRST EPSS score in hundredths;  kev  shodan kev flag         *)
(***************************************************************************)
Raw(shape, id, alt, desc, score, label, vendor, product, epss, kev) ==
    [shape |-> shape, id |-> id, alt |-> alt, desc |-> desc, score |-> score,
     label |-> label, vendor |-> vendor, product |-> product, epss |-> epss,
     kev |-> kev]

BadRaw == Raw("bad", Null, Null, Null, NoScore, Null, <<>>, <<>>, 0, FALSE)

\* the records the upstream feeds can serve
Catalog(s) ==
    CASE s = "nvd" ->
           {Raw("ok", "CVE-2024-0001", Null, "d1", 980, Null, <<"a", "p">>, <<"h", "d">>, 0, FALSE),
            Raw("ok", Null, Null, "d2", 750, Null, <<>>, <<>>, 0, FALSE),
            BadRaw}
      [] s = "cisa_kev" ->
           {Raw("ok", "CVE-2024-0001", Null, "d1", NoScore, Null, <<"A", "p">>, <<"h", "d">>, 0, FALSE),
            Raw("ok", Null, Null, "d3", NoScore, Null, <<"n", "g">>, <<>>, 0, FALSE)}
      [] s = "exploitdb" ->
           {Raw("ok", "cve-2024-0001", "50001", "d4", NoScore, Null, <<>>, <<>>, 0, FALSE),
            Raw("ok", "CVE-2024-0001", "50002", "d5", NoScore, Null, <<>>, <<>>, 0, FALSE),
            Raw("ok", Null, "50001", "d6", NoScore, Null, <<>>, <<>>, 0, FALSE),
            BadRaw}
      [] s = "github" ->
           {Raw("ok", Null, "GHSA-0001", "d7", 910, Null, <<"n", "p", "m">>, <<"p", "g">>, 0, FALSE),
            Raw("ok", "CVE-2024-0002", "GHSA-0002", "", 0, "unknown", <<>>, <<>>, 0, FALSE),
            Raw("ok", Null, Null, "d8", 300, Null, <<>>, <<>>, 0, FALSE)}
      [] s = "shodan" ->
           {Raw("ok", "CVE-2024-0003", Null, "d9", 880, Null, <<"n", "g">>, <<"n", "g">>, 0, TRUE),
            BadRaw}
      [] s = "greynoise" ->
           {Raw("ok", "CVE-2024-0003", Null, "", 720, Null, <<>>, <<>>, 90, FALSE),
            Raw("ok", Null, Null, "d9", 950, Null, <<>>, <<>>, 60, FALSE)}
      [] OTHER -> {}

\* what an adapter makes of one upstream record: a candidate for upsertThreat,
\* an exception, or nothing (the record is skipped)
Threat(source, source_id, title, severity, score, vendor, product, ea, ae) ==
    [source |-> source, source_id |-> source_id, title |-> title,
     severity |-> severity, cvss_score |-> score, affected_vendor |-> vendor,
     affected_product |-> product, exploits_available |-> ea,
     actively_exploited |-> ae]

NoThreat == Threat(Null, Null, Null, Null, NoScore, <<>>, <<>>, FALSE, FALSE)

Candidate(t) == [out |-> "cand", t |-> t]
Throws == [out |-> "throw", t |-> NoThreat]
Skips == [out |-> "skip", t |-> NoThreat]

\* x || '' for a text
TextOrEmpty(s) == IF Falsy(s) THEN "" ELSE s

nvdItem(raw) ==
    IF raw.shape = "bad" THEN Throws
    ELSE LET score == ScoreOrNull(raw.score)
         IN  Candidate(Threat("nvd", raw.id, TextOrEmpty(raw.desc),
                              severityFromCvss(score), score, raw.vendor,
                              raw.product, FALSE, FALSE))

cisaKevItem(raw) ==
    IF raw.shape = "bad" THEN Throws
    ELSE Candidate(Threat("cisa_kev", raw.id, "kev-title", "high", NoScore,
                          raw.vendor, raw.product, TRUE, TRUE))

exploitdbItem(raw) ==
    IF raw.shape = "bad" THEN Skips
    ELSE LET sourceId == IF raw.id # Null THEN toUpperCase(raw.id)
                         ELSE EdbId(raw.alt)
         IN  Candidate(Threat("exploitdb", sourceId, TextOrEmpty(raw.desc),
                              "high", NoScore, <<>>, <<>>, TRUE, FALSE))

githubItem(raw) ==
    IF raw.shape = "bad" THEN Throws
    ELSE LET cveId == IF Falsy(raw.id) THEN raw.alt ELSE raw.id
             score == ScoreOrNull(raw.score)
             severity == IF Falsy(raw.label) THEN severityFromCvss(score)
                         ELSE raw.label
         IN  Candidate(Threat("github", cveId, TextOrEmpty(raw.desc), severity,
                              score, raw.vendor, raw.product, FALSE, FALSE))

shodanItem(raw) ==
    IF raw.shape = "bad" THEN Throws
    ELSE LET score == ScoreOrNull(raw.score)
         IN  Candidate(Threat("shodan", raw.id, TextOrEmpty(raw.desc),
                              severityFromCvss(score), score, raw.vendor,
                              raw.product, TRUE, raw.kev))

\* detailOk: the per-CVE detail fetch answered; its failure is swallowed
greynoiseItem(raw, detailOk) ==
    IF raw.shape = "bad" THEN Throws
    ELSE LET cveId == raw.id
             \* (detail.summary || cveId).slice throws on null, inside the try
             enriched == detailOk /\ ~(Falsy(raw.desc) /\ cveId = Null)
             title == IF enriched /\ ~Falsy(raw.desc) THEN raw.desc ELSE cveId
             score == IF enriched THEN ScoreOrNull(raw.score) ELSE NoScore
         IN  Candidate(Threat("greynoise", cveId, title, severityFromCvss(score),
                              score,
                              IF enriched THEN raw.vendor ELSE <<>>,
                              IF enriched THEN raw.product ELSE <<>>,
                              raw.epss > 50, raw.epss > 80))

adapterItem(source, raw, detailOk) ==
    CASE source = "nvd" -> nvdItem(raw)
      [] source = "cisa_kev" -> cisaKevItem(raw)
      [] source = "exploitdb" -> exploitdbItem(raw)
      [] source = "github" -> githubItem(raw)
      [] source = "shodan" -> shodanItem(raw)
      [] source = "greynoise" -> greynoiseItem(raw, detailOk)

-----------------------------------------------------------------------------
(* Deduplicating store writer *)

\* the SELECT with its two bound values in the wrong order
existingThreatSwapped(rows, t) ==
    \E i \in 1..Len(rows) :
        /\ rows[i].source = t.source_id
        /\ t.source # Null
        /\ rows[i].source_id = t.source

\* SELECT id FROM threats WHERE source = ? AND source_id = ?  (NULL = NULL is
\* not true in SQL: a NULL source_id matches no row)
existingThreat(rows, t) ==
    \E i \in 1..Len(rows) :
        /\ rows[i].source = t.source
        /\ t.source_id # Null
        /\ rows[i].source_id = t.source_id

\* the INSERT fails on title TEXT NOT NULL
insertFails(t) == t.title = Null

\* the table with a UNIQUE (source, source_id) besides
insertRefusedUnique(rows, t) ==
    \/ insertFails(t)
    \/ \E i \in 1..Len(rows) :
           rows[i].source = t.source /\ rows[i].source_id = t.source_id

\* the constraints of the threats table the INSERT can fail on: no index of
\* the table is UNIQUE
insertRefused(rows, t) == insertFails(t)

\* the row the INSERT writes: x || null, and booleans as 0/1
threatRow(rows, t) ==
    [id |-> Len(rows) + 1, source |-> t.source, source_id |-> t.source_id,
     title |-> t.title, severity |-> t.severity,
     cvss_score |-> ScoreOrNull(t.cvss_score),
     affected_vendor |-> t.affected_vendor,
     affected_product |-> t.affected_product,
     exploits_available |-> IF t.exploits_available THEN 1 ELSE 0,
     actively_exploited |-> IF t.actively_exploited THEN 1 ELSE 0]

-----------------------------------------------------------------------------
(* Requests.  A worker is idle, or handles one request and stands at one   *)
(* of its awaits; "done" keeps the response until the worker is reused.    *)
(***************************************************************************)

NoTexts == [summary |-> [form |-> "none"], remediation |-> [form |-> "none"],
            businessImpact |-> [form |-> "none"]]

NoResp == [status |-> 0, detail |-> Null, n |-> 0, results |-> <<>>]

Idle ==
    [kind |-> "idle", pc |-> "idle", user |-> NoUser,
     \* ingestion: sources still to run, the one running, its records left,
     \* the candidate being upserted, its count, the per-source results
     srcs |-> <<>>, cur |-> Null, data |-> <<>>, cand |-> NoThreat,
     count |-> 0, results |-> <<>>,
     \* generateBriefings: the two query results, the asset and the threat
     \* of toProcess being handled, the texts to store, the count
     userAssets |-> <<>>, pool |-> <<>>, ai |-> 0, ti |-> 0,
     texts |-> NoTexts, generated |-> 0,
     resp |-> NoResp,
     \* bookkeeping for the properties: threat rows at the start of the
     \* request and of the running ingestSource call, the feed as fetched,
     \* the sources dispatched and the sources whose adapter threw
     req0 |-> 0, rows0 |-> 0, fetched |-> <<>>, tried |-> {}, failed |-> {},
     skipped |-> 0, again |-> FALSE,
     \* the number of briefing rows at the start of the request, calls made to the text
     \* generator, the (threat, asset) pairs whose call failed, and whether
     \* the two queries of generateBriefings returned rows
     b0 |-> 0, aiCalls |-> 0, aiFailed |-> {}, hadAssets |-> FALSE,
     hadThreats |-> FALSE,
     \* what the two queries of the generateBriefings call just before this
     \* one returned, until this call's queries are compared with it
     seen |-> <<>>,
     \* the last answer of the text generator as it came
     said |-> <<>>]

Free(p) == proc[p].pc \in {"idle", "done"}

\* c.json(body, status)
Respond(pr, status, detail, n, results) ==
    [pr EXCEPT !.pc = "done",
               !.resp = [status |-> status, detail |-> detail, n |-> n,
                         results |-> results],
               !.srcs = <<>>, !.data = <<>>, !.cand = NoThreat,
               !.ai = 0, !.ti = 0, !.texts = NoTexts]

\* total: Object.values(results).reduce((a, b) => a + b, 0)
RECURSIVE SumOver(_, _)
SumOver(f, dom) ==
    IF dom = {} THEN 0
    ELSE LET x == CHOOSE y \in dom : TRUE
         IN  f[x] + SumOver(f, dom \ {x})

Total(results) == SumOver(results, DOMAIN results)

\* threats.post('/ingest/:source'): the try succeeded
ingestOneOk(pr, count) == Respond(pr, 200, Null, count, <<>>)

\* threats.post('/ingest/:source'): catch (e) -> c.json({detail: e.message}, 500)
ingestOneCatch(pr, message) == Respond(pr, 500, message, 0, <<>>)

\* threats.post('/ingest'): one turn of the for loop is over with results[src]
\* set; respond after the last source
ingestAllNext(pr, results) ==
    IF Len(pr.srcs) = 1
    THEN Respond(pr, 200, Null, Total(results), results)
    ELSE [pr EXCEPT !.pc = "dispatch", !.results = results,
                    !.srcs = Tail(pr.srcs), !.data = <<>>, !.cand = NoThreat]

\* threats.post('/ingest'): results[src] = await ingestSource(...)
ingestAllOk(pr, count) == ingestAllNext(pr, (pr.cur :> count) @@ pr.results)

\* the loop without its try/catch: the first failing source ends the request
ingestAllRethrow(pr, message) == Respond(pr, 500, message, 0, pr.results)

\* threats.post('/ingest'): catch (e) -> results[src] = 0
ingestAllCatch(pr, message) == ingestAllNext(pr, (pr.cur :> 0) @@ pr.results)

\* ingestSource returned count to the route that called it
Returned(pr, count) ==
    IF pr.kind = "ingestOne" THEN ingestOneOk(pr, count)
    ELSE ingestAllOk(pr, count)

\* ingestSource threw to the route that called it
Thrown(pr, message) ==
    LET f == [pr EXCEPT !.failed = pr.failed \cup {pr.cur}]
    IN  IF pr.kind = "ingestOne" THEN ingestOneCatch(f, message)
        ELSE ingestAllCatch(f, message)

\* the record of a finished ingestSource call: its source, the records it
\* fetched and whether it returned
Run(pr, ok) == [src |-> pr.cur, data |-> pr.fetched, ok |-> ok]

NoRun == [src |-> Null, data |-> <<>>, ok |-> FALSE]

\* this call repeats the call before it: same source, same records fetched,
\* after a call that returned
Repeats(pr, data) ==
    prevRun.ok /\ prevRun.src = pr.cur /\ prevRun.data = data

\* the feeds an upstream source can answer with, within the bound on the
\* number of records served
RECURSIVE SeqsUpTo(_, _)
SeqsUpTo(S, n) ==
    IF n = 0 THEN {<<>>}
    ELSE LET shorter == SeqsUpTo(S, n - 1)
         IN  shorter \cup {Append(q, x) : q \in shorter, x \in S}

Room == IF Len(threats) >= MaxRows THEN 0 ELSE MaxRows - Len(threats)

\* a record whose candidate is not stored yet
Fresh(s, raw) ==
    LET item == adapterItem(s, raw, TRUE)
    IN  item.out = "cand" /\ ~existingThreat(threats, item.t)

\* the feeds a source can answer with: as many records as the table has
\* room for, or the records it served to the call just before, as long as
\* the table has room for those of them that are new to it
Feeds(s) ==
    SeqsUpTo(Catalog(s), Room) \cup
        {f \in {prevRun.data} :
            /\ prevRun.src = s
            /\ Cardinality({i \in 1..Len(f) : Fresh(s, f[i])}) <= Room}

StartIngestAll(p) ==
    /\ Free(p)
    /\ proc' = [proc EXCEPT ![p] =
           [Idle EXCEPT !.kind = "ingestAll", !.pc = "dispatch",
                        !.srcs = Sources, !.req0 = Len(threats)]]
    /\ UNCHANGED <<threats, assets, briefings, nextAssetId, nextBriefingId, prevRun>>

StartIngestOne(p, source) ==
    /\ Free(p)
    /\ proc' = [proc EXCEPT ![p] =
           [Idle EXCEPT !.kind = "ingestOne", !.pc = "dispatch",
                        !.srcs = <<source>>, !.req0 = Len(threats)]]
    /\ UNCHANGED <<threats, assets, briefings, nextAssetId, nextBriefingId, prevRun>>

\* ingestSource: the switch
ingestSource(p) ==
    LET pr == proc[p]
        src == Head(pr.srcs)
        at == [pr EXCEPT !.cur = src, !.count = 0, !.rows0 = Len(threats),
                         !.fetched = <<>>, !.skipped = 0, !.again = FALSE,
                         !.tried = pr.tried \cup {src}]
    IN  /\ pr.pc = "dispatch"
        /\ IF src \in SourceSet
           THEN /\ proc' = [proc EXCEPT ![p] = [at EXCEPT !.pc = "fetch"]]
                /\ UNCHANGED prevRun
           ELSE /\ proc' = [proc EXCEPT ![p] = Thrown(at, "Unknown source")]
                /\ prevRun' = Run(at, FALSE)
        /\ UNCHANGED <<threats, assets, briefings, nextAssetId, nextBriefingId>>

\* await fetch(url) failed, or answered with !res.ok or an unparsable body
FetchFails(p) ==
    LET pr == proc[p]
    IN  /\ pr.pc = "fetch"
        /\ proc' = [proc EXCEPT ![p] = Thrown(pr, "fetch failed")]
        /\ prevRun' = Run(pr, FALSE)
        /\ UNCHANGED <<threats, assets, briefings, nextAssetId, nextBriefingId>>

\* await fetch(url) answered with one of the given feeds
FetchAnswers(p, feeds) ==
    LET pr == proc[p]
    IN  /\ pr.pc = "fetch"
        /\ \E data \in feeds :
               proc' = [proc EXCEPT ![p] =
                   [pr EXCEPT !.pc = "item", !.data = data, !.fetched = data,
                              !.again = Repeats(pr, data)]]
        /\ UNCHANGED <<threats, assets, briefings, nextAssetId, nextBriefingId, prevRun>>

FetchOk(p) == FetchAnswers(p, Feeds(proc[p].cur))

\* return count, after the last record
AdapterReturns(p) ==
    LET pr == proc[p]
    IN  /\ pr.pc = "item"
        /\ pr.data = <<>>
        /\ proc' = [proc EXCEPT ![p] = Returned(pr, pr.count)]
        /\ prevRun' = Run(pr, TRUE)
        /\ UNCHANGED <<threats, assets, briefings, nextAssetId, nextBriefingId>>

\* counting every candidate seen instead of every row inserted
threatFoundCounted(pr) ==
    [pr EXCEPT !.data = Tail(pr.data), !.skipped = pr.skipped + 1,
               !.count = pr.count + 1]

\* upsertThreat found the pair and returned false: if (inserted) count++ is
\* not taken
threatFound(pr) ==
    [pr EXCEPT !.data = Tail(pr.data), !.skipped = pr.skipped + 1]

\* an upsert that overwrites the stored row with the candidate
foundRowsReplaced(rows, t) ==
    [i \in 1..Len(rows) |->
        IF rows[i].source = t.source /\ rows[i].source_id = t.source_id
        THEN [threatRow(rows, t) EXCEPT !.id = rows[i].id]
        ELSE rows[i]]

\* if (existing) return false: nothing is written
foundRows(rows, t) == rows

\* one turn of the adapter's loop up to upsertThreat's SELECT
upsertSelect(p) ==
    LET pr == proc[p]
    IN  /\ pr.pc = "item"
        /\ pr.data # <<>>
        /\ \E detailOk \in (IF pr.cur = "greynoise" THEN BOOLEAN ELSE {TRUE}) :
              LET item == adapterItem(pr.cur, Head(pr.data), detailOk)
              IN  CASE item.out = "throw" ->
                         /\ proc' = [proc EXCEPT ![p] = Thrown(pr, "TypeError")]
                         /\ prevRun' = Run(pr, FALSE)
                         /\ UNCHANGED threats
                    [] item.out = "skip" ->
                         /\ proc' = [proc EXCEPT ![p] =
                                [pr EXCEPT !.data = Tail(pr.data)]]
                         /\ UNCHANGED <<prevRun, threats>>
                    [] OTHER ->
                         /\ IF existingThreat(threats, item.t)
                            THEN /\ proc' = [proc EXCEPT ![p] = threatFound(pr)]
                                 /\ threats' = foundRows(threats, item.t)
                            ELSE /\ proc' = [proc EXCEPT ![p] =
                                        [pr EXCEPT !.pc = "insert", !.cand = item.t]]
                                 /\ UNCHANGED threats
                         /\ UNCHANGED prevRun
        /\ UNCHANGED <<assets, briefings, nextAssetId, nextBriefingId>>

\* upsertThreat's INSERT, then if (inserted) count++
upsertInsert(p) ==
    LET pr == proc[p]
    IN  /\ pr.pc = "insert"
        /\ IF insertRefused(threats, pr.cand)
           THEN /\ proc' = [proc EXCEPT ![p] = Thrown(pr, "NOT NULL constraint failed")]
                /\ prevRun' = Run(pr, FALSE)
                /\ UNCHANGED threats
           ELSE /\ threats' = Append(threats, threatRow(threats, pr.cand))
                /\ proc' = [proc EXCEPT ![p] =
                       [pr EXCEPT !.pc = "item", !.data = Tail(pr.data),
                                  !.cand = NoThreat, !.count = pr.count + 1]]
                /\ UNCHANGED prevRun
        /\ UNCHANGED <<assets, briefings, nextAssetId, nextBriefingId>>

IngestStep(p) ==
    \/ ingestSource(p)
    \/ FetchFails(p)
    \/ FetchOk(p)
    \/ AdapterReturns(p)
    \/ upsertSelect(p)
    \/ upsertInsert(p)

-----------------------------------------------------------------------------
(* Assets *)

\* the authenticated users, and the unauthenticated caller
Users == {NoUser, 1}

Asset(name, vendor, product) ==
    [name |-> name, vendor |-> vendor, product |-> product]

\* the bodies a caller posts to /assets
AssetBodies ==
    {Asset("web", <<"A", "p", "x">>, <<>>),
     Asset("db", <<>>, <<>>),
     Asset("", <<"A", "p", "x">>, <<>>)}

\* the row INSERT INTO assets writes (vendor || null, user?.id || null)
assetRow(id, body, user) ==
    [id |-> id, name |-> body.name, vendor |-> body.vendor,
     product |-> body.product, user_id |-> user]

\* assets.post('/')
createAsset(p, user, body) ==
    /\ Free(p)
    /\ nextAssetId <= MaxAssets
    /\ LET pr == [Idle EXCEPT !.kind = "createAsset", !.user = user]
       IN  IF body.name = ""
           THEN /\ proc' = [proc EXCEPT ![p] =
                       Respond(pr, 400, "name is required", 0, <<>>)]
                /\ UNCHANGED <<assets, nextAssetId>>
           ELSE /\ assets' = Append(assets, assetRow(nextAssetId, body, user))
                /\ nextAssetId' = nextAssetId + 1
                /\ proc' = [proc EXCEPT ![p] =
                       Respond(pr, 201, Null, nextAssetId, <<>>)]
    /\ prevRun' = NoRun
    /\ UNCHANGED <<threats, briefings, nextBriefingId>>

\* the blocks of a yaml_content: a block without a name has the name ""
ImportBlocks ==
    {<<Asset("web", <<"A", "p", "x">>, <<>>)>>,
     <<Asset("", <<"A", "p", "x">>, <<>>)>>,
     <<Asset("", <<>>, <<>>), Asset("db", <<>>, <<>>)>>,
     <<Asset("web", <<"A", "p", "x">>, <<>>), Asset("db", <<>>, <<>>)>>}

\* assets.post('/import-yaml'): one INSERT for each block that has a name
importAssets(p, user, blocks) ==
    /\ Free(p)
    /\ nextAssetId <= MaxAssets
    /\ LET pr == [Idle EXCEPT !.kind = "importAssets", !.user = user]
           named == SelectSeq(blocks, LAMBDA b : b.name # "")
           rows == [i \in 1..Len(named) |->
                       assetRow(nextAssetId + i - 1, named[i], user)]
       IN  /\ assets' = assets \o rows
           /\ nextAssetId' = nextAssetId + Len(named)
           /\ proc' = [proc EXCEPT ![p] = Respond(pr, 200, Null, Len(named), <<>>)]
    /\ prevRun' = NoRun
    /\ UNCHANGED <<threats, briefings, nextBriefingId>>

\* DELETE FROM assets WHERE id = ? AND user_id = ? (or user_id IS NULL)
assetsAfterDelete(rows, id, user) ==
    SelectSeq(rows, LAMBDA a : ~(a.id = id /\ a.user_id = user))

\* the briefings left as they are
cascadeNone(rows, left) == rows

\* briefings.asset_id REFERENCES assets(id) ON DELETE CASCADE
cascade(rows, left) ==
    SelectSeq(rows, LAMBDA b : \E i \in 1..Len(left) : left[i].id = b.asset_id)

\* assets.delete('/:id')
deleteAsset(p, user, id) ==
    /\ Free(p)
    /\ LET pr == [Idle EXCEPT !.kind = "deleteAsset", !.user = user]
           left == assetsAfterDelete(assets, id, user)
       IN  /\ assets' = left
           /\ briefings' = cascade(briefings, left)
           /\ proc' = [proc EXCEPT ![p] = Respond(pr, 200, Null, 0, <<>>)]
    /\ prevRun' = NoRun
    /\ UNCHANGED <<threats, nextAssetId, nextBriefingId>>

-----------------------------------------------------------------------------
(* Correlator *)

Min(a, b) == IF a < b THEN a ELSE b

LowerChar(c) ==
    CASE c = "A" -> "a"
      [] c = "P" -> "p"
      [] c = "N" -> "n"
      [] c = "G" -> "g"
      [] OTHER -> c

toLowerCase(str) == [i \in 1..Len(str) |-> LowerChar(str[i])]

\* String.prototype.includes
includes(hay, needle) ==
    \E i \in 0..(Len(hay) - Len(needle)) :
        SubSeq(hay, i + 1, i + Len(needle)) = needle

\* the containment tested the other way round
isMatchReversed(a, t) ==
    IF a.vendor = <<>> /\ a.product = <<>> THEN FALSE
    ELSE LET vendorMatch ==
                 /\ a.vendor # <<>>
                 /\ t.affected_vendor # <<>>
                 /\ includes(toLowerCase(t.affected_vendor), toLowerCase(a.vendor))
             productMatch ==
                 /\ a.product # <<>>
                 /\ t.affected_product # <<>>
                 /\ includes(toLowerCase(t.affected_product), toLowerCase(a.product))
         IN  vendorMatch \/ productMatch

\* the filter callback: does asset a match threat t
isMatch(a, t) ==
    IF a.vendor = <<>> /\ a.product = <<>> THEN FALSE
    ELSE LET vendorMatch ==
                 /\ a.vendor # <<>>
                 /\ t.affected_vendor # <<>>
                 /\ includes(toLowerCase(a.vendor), toLowerCase(t.affected_vendor))
             productMatch ==
                 /\ a.product # <<>>
                 /\ t.affected_product # <<>>
                 /\ includes(toLowerCase(a.product), toLowerCase(t.affected_product))
         IN  vendorMatch \/ productMatch

matching(a, pool) == SelectSeq(pool, LAMBDA t : isMatch(a, t))

\* matching.slice(0, 3), threats.results.slice(0, 2), LIMIT 50
MatchLimit == 3
FallbackLimit == 2
PoolLimit == 50

slice(seq, n) == SubSeq(seq, 1, Min(n, Len(seq)))

\* every matching threat taken
toProcessAll(a, pool) ==
    IF Len(matching(a, pool)) > 0
    THEN matching(a, pool)
    ELSE slice(pool, FallbackLimit)

\* the fallback as long as the matching slice
toProcessWide(a, pool) ==
    IF Len(matching(a, pool)) > 0
    THEN slice(matching(a, pool), MatchLimit)
    ELSE slice(pool, MatchLimit)

toProcess(a, pool) ==
    IF Len(matching(a, pool)) > 0
    THEN slice(matching(a, pool), MatchLimit)
    ELSE slice(pool, FallbackLimit)

\* SELECT * FROM threats WHERE severity IN ('critical', 'high')
qualifying(rows) ==
    SelectSeq(rows, LAMBDA t : t.severity \in {"critical", "high"})

\* ... ORDER BY cvss_score DESC LIMIT 50: NULL sorts last, and the order of
\* rows with equal cvss_score is not fixed by the query
poolOrders(rows) ==
    LET q == qualifying(rows)
        n == Len(q)
        perms == {f \in [1..n -> 1..n] :
                     /\ \A i, j \in 1..n : i # j => f[i] # f[j]
                     /\ \A i, j \in 1..n :
                           i < j => q[f[i]].cvss_score >= q[f[j]].cvss_score}
    IN  {slice([i \in 1..n |-> q[f[i]]], PoolLimit) : f \in perms}

\* SELECT * FROM assets
scopedAssetsAll(rows, user) == rows

\* SELECT * FROM assets WHERE user_id = ?  (or user_id IS NULL)
scopedAssets(rows, user) == SelectSeq(rows, LAMBDA a : a.user_id = user)

-----------------------------------------------------------------------------
(* Priority scorer: scores in hundredths, the stored priority in tenths *)

\* the weighted sum with no upper limit
priorityUnclamped(t, matched) ==
    LET cvssWeight == IF t.cvss_score = NoScore \/ t.cvss_score = 0 THEN 500
                      ELSE t.cvss_score
        exploitWeight == IF t.exploits_available # 0 THEN 200 ELSE 0
        activeWeight == IF t.actively_exploited # 0 THEN 300 ELSE 0
        matchWeight == IF matched THEN 200 ELSE 0
    IN  cvssWeight + exploitWeight + activeWeight + matchWeight

\* the match weight given to every pair
priorityBonusAlways(t, matched) ==
    LET cvssWeight == IF t.cvss_score = NoScore \/ t.cvss_score = 0 THEN 500
                      ELSE t.cvss_score
        exploitWeight == IF t.exploits_available # 0 THEN 200 ELSE 0
        activeWeight == IF t.actively_exploited # 0 THEN 300 ELSE 0
        matchWeight == 200
    IN  Min(1000, cvssWeight + exploitWeight + activeWeight + matchWeight)

priority(t, matched) ==
    LET cvssWeight == IF t.cvss_score = NoScore \/ t.cvss_score = 0 THEN 500
                      ELSE t.cvss_score
        exploitWeight == IF t.exploits_available # 0 THEN 200 ELSE 0
        activeWeight == IF t.actively_exploited # 0 THEN 300 ELSE 0
        matchWeight == IF matched THEN 200 ELSE 0
    IN  Min(1000, cvssWeight + exploitWeight + activeWeight + matchWeight)

\* The weights are added and multiplied as IEEE 754 doubles.  For a score of
\* two decimals the result differs from the exact sum by less than one unit
\* in the last place, which matters to Math.round only where the exact sum
\* lies half-way between two tenths: these are the scores (in hundredths) at
\* which ((cvss_score / 10) + exploitWeight + activeWeight + matchWeight) * 10
\* comes out just below such a half-way value, for each combination of the
\* three flags.
halfLost(exploits, active, matched) ==
    CASE ~exploits /\ ~active /\ ~matched -> {85, 555, 595}
      [] ~exploits /\ ~active /\ matched ->
           {355, 365, 395, 535, 555, 575, 605, 615, 785}
      [] ~exploits /\ active /\ ~matched ->
           {115, 145, 165, 255, 265, 295, 435, 455, 475, 505, 515, 685}
      [] ~exploits /\ active /\ matched ->
           {45, 55, 65, 95, 255, 265, 275, 305, 315, 435, 455, 475, 485}
      [] exploits /\ ~active /\ ~matched ->
           {355, 365, 395, 535, 555, 575, 605, 615, 785}
      [] exploits /\ ~active /\ matched ->
           {145, 155, 165, 195, 355, 365, 375, 405, 415, 535, 555, 575, 585}
      [] exploits /\ active /\ ~matched -> {45, 55, 65, 95, 305, 315}
      [] exploits /\ active /\ matched -> {55, 65, 75, 105, 115}

\* the double held by priority is just below the half-way value
fallsShort(t, matched) ==
    t.cvss_score \in halfLost(t.exploits_available # 0,
                              t.actively_exploited # 0, matched)

\* Math.round(priority * 10) / 10: the nearest tenth, a half going up
roundTenths(p, short) == (IF short THEN p + 4 ELSE p + 5) \div 10

-----------------------------------------------------------------------------
(* Briefing synthesizer *)

\* the answers of the text generator: a text is a sequence of words, the
\* three labels being words of their own
AiResponses ==
    {<<"SUMMARY:", "s1", "REMEDIATION:", "r1", "IMPACT:", "i1">>}

UpperWord(w) ==
    CASE w = "summary:" -> "SUMMARY:"
      [] w = "remediation:" -> "REMEDIATION:"
      [] w = "impact:" -> "IMPACT:"
      [] OTHER -> w

\* the first place at or after from where the label stands, 0 if none
indexOf(text, label, from) ==
    LET at == {i \in from..Len(text) : UpperWord(text[i]) = label}
    IN  IF at = {} THEN 0 ELSE CHOOSE i \in at : \A j \in at : i <= j

\* text.match(/LABEL:\s*([\s\S]*?)(?=NEXT:|$)/i)?.[1]?.trim(), <<>> when there
\* is no match or nothing is captured; next = "" stands for the pattern
\* that runs to the end of the text
section(text, label, next) ==
    LET i == indexOf(text, label, 1)
        j == IF i = 0 \/ next = "" THEN 0 ELSE indexOf(text, next, i + 1)
    IN  IF i = 0 THEN <<>>
        ELSE SubSeq(text, i + 1, IF j = 0 THEN Len(text) ELSE j - 1)

\* text.slice(0, 200)
SummaryLimit == 200

parseResponse(text) ==
    LET summary == section(text, "SUMMARY:", "REMEDIATION:")
    IN  [summary |-> [form |-> "text",
                      words |-> IF summary = <<>> THEN slice(text, SummaryLimit)
                                ELSE summary],
         remediation |-> [form |-> "text",
                          words |-> section(text, "REMEDIATION:", "IMPACT:")],
         businessImpact |-> [form |-> "text",
                             words |-> section(text, "IMPACT:", "")]]

\* the catch block: texts built from the threat's and the asset's own fields
fallbackTexts(t, a) ==
    [summary |-> [form |-> "summary template", source_id |-> t.source_id,
                  severity |-> t.severity, name |-> a.name,
                  cvss_score |-> t.cvss_score,
                  active |-> t.actively_exploited # 0],
     remediation |-> [form |-> "remediation template", name |-> a.name,
                      source_id |-> t.source_id],
     businessImpact |-> [form |-> "impact template", severity |-> t.severity,
                         name |-> a.name]]

\* the existence check with its two parameters bound in the wrong order
existingBriefingSwapped(rows, threatId, assetId) ==
    \E i \in 1..Len(rows) :
        rows[i].threat_id = assetId /\ rows[i].asset_id = threatId

\* SELECT id FROM briefings WHERE threat_id = ? AND asset_id = ?
existingBriefing(rows, threatId, assetId) ==
    \E i \in 1..Len(rows) :
        rows[i].threat_id = threatId /\ rows[i].asset_id = assetId

\* the foreign keys of a briefing row hold
referencesHold(threatId, assetId) ==
    /\ \E i \in 1..Len(threats) : threats[i].id = threatId
    /\ \E i \in 1..Len(assets) : assets[i].id = assetId

CurAsset(pr) == pr.userAssets[pr.ai]

CurThreat(pr) == toProcess(CurAsset(pr), pr.pool)[pr.ti]

\* the loops move on: the next threat of toProcess, the next asset, or
\* c.json({status: 'completed', generated})
nextPair(pr) ==
    IF pr.ti < Len(toProcess(CurAsset(pr), pr.pool))
    THEN [pr EXCEPT !.pc = "pair", !.ti = pr.ti + 1, !.texts = NoTexts]
    ELSE IF pr.ai < Len(pr.userAssets)
    THEN [pr EXCEPT !.pc = "pair", !.ai = pr.ai + 1, !.ti = 1, !.texts = NoTexts]
    ELSE Respond(pr, 200, Null, pr.generated, <<>>)

\* the caller and the query results of a call that completed
Seen(pr) ==
    IF pr.kind = "generate" /\ pr.pc = "done" /\ pr.resp.status = 200
    THEN <<pr.user, pr.userAssets, pr.pool>>
    ELSE <<>>

\* briefings.post('/generate')
StartGenerate(p, user) ==
    /\ Free(p)
    /\ proc' = [proc EXCEPT ![p] =
           [Idle EXCEPT !.kind = "generate", !.pc = "assets", !.user = user,
                        !.b0 = Len(briefings), !.seen = Seen(proc[p])]]
    /\ prevRun' = NoRun
    /\ UNCHANGED <<threats, assets, briefings, nextAssetId, nextBriefingId>>

\* the first query
selectAssets(p) ==
    LET pr == proc[p]
        rows == scopedAssets(assets, pr.user)
    IN  /\ pr.pc = "assets"
        /\ proc' = [proc EXCEPT ![p] =
               [pr EXCEPT !.pc = "threats", !.userAssets = rows,
                          !.hadAssets = rows # <<>>]]
        /\ UNCHANGED <<threats, assets, briefings, nextAssetId, nextBriefingId, prevRun>>

\* the checks without the one on the assets
preconditionsThreatsOnly(pr, pool) ==
    IF Len(pool) = 0
    THEN Respond(pr, 400, "No threats ingested. Ingest threats first.", 0, <<>>)
    ELSE IF Len(pr.userAssets) = 0
    THEN Respond(pr, 200, Null, 0, <<>>)
    ELSE [pr EXCEPT !.pc = "pair", !.pool = pool, !.ai = 1, !.ti = 1]

\* an empty pool taken as nothing to do
preconditionsLenient(pr, pool) ==
    IF Len(pr.userAssets) = 0
    THEN Respond(pr, 400, "No assets registered. Add assets first.", 0, <<>>)
    ELSE IF Len(pool) = 0
    THEN Respond(pr, 200, Null, 0, <<>>)
    ELSE [pr EXCEPT !.pc = "pair", !.pool = pool, !.ai = 1, !.ti = 1]

\* the two precondition checks, and the start of the loops
preconditions(pr, pool) ==
    IF Len(pr.userAssets) = 0
    THEN Respond(pr, 400, "No assets registered. Add assets first.", 0, <<>>)
    ELSE IF Len(pool) = 0
    THEN Respond(pr, 400, "No threats ingested. Ingest threats first.", 0, <<>>)
    ELSE [pr EXCEPT !.pc = "pair", !.pool = pool, !.ai = 1, !.ti = 1]

\* the second query, then the checks
selectThreats(p) ==
    LET pr == proc[p]
    IN  /\ pr.pc = "threats"
        /\ \E pool \in poolOrders(threats) :
               proc' = [proc EXCEPT ![p] =
                   preconditions(
                       [pr EXCEPT !.hadThreats = pool # <<>>, !.seen = <<>>,
                                  !.again = pr.seen = <<pr.user, pr.userAssets, pool>>],
                       pool)]
        /\ UNCHANGED <<threats, assets, briefings, nextAssetId, nextBriefingId, prevRun>>

\* the existence check of one (threat, asset) pair
briefingSelect(p) ==
    LET pr == proc[p]
    IN  /\ pr.pc = "pair"
        /\ proc' = [proc EXCEPT ![p] =
               IF existingBriefing(briefings, CurThreat(pr).id, CurAsset(pr).id)
               THEN nextPair(pr)
               ELSE [pr EXCEPT !.pc = "ai"]]
        /\ UNCHANGED <<threats, assets, briefings, nextAssetId, nextBriefingId, prevRun>>

\* the call outside any try block: its failure ends the request
aiRethrow(pr) ==
    Respond([pr EXCEPT !.aiCalls = pr.aiCalls + 1,
                       !.aiFailed = pr.aiFailed \cup {<<CurThreat(pr).id, CurAsset(pr).id>>}],
            500, "AI error", 0, <<>>)

\* the text generator failed and the catch block ran
aiCatch(pr) ==
    [pr EXCEPT !.pc = "store",
               !.texts = fallbackTexts(CurThreat(pr), CurAsset(pr)),
               !.aiCalls = pr.aiCalls + 1,
               !.aiFailed = pr.aiFailed \cup {<<CurThreat(pr).id, CurAsset(pr).id>>}]

\* await c.env.AI.run(...) threw
aiFails(p) ==
    /\ proc[p].pc = "ai"
    /\ proc' = [proc EXCEPT ![p] = aiCatch(proc[p])]
    /\ UNCHANGED <<threats, assets, briefings, nextAssetId, nextBriefingId, prevRun>>

\* await c.env.AI.run(...) answered with one of responses
aiAnswersFrom(p, responses) ==
    LET pr == proc[p]
    IN  /\ pr.pc = "ai"
        /\ \E text \in responses :
               proc' = [proc EXCEPT ![p] =
                   [pr EXCEPT !.pc = "store", !.texts = parseResponse(text),
                              !.aiCalls = pr.aiCalls + 1, !.said = text]]
        /\ UNCHANGED <<threats, assets, briefings, nextAssetId, nextBriefingId, prevRun>>

aiAnswers(p) == aiAnswersFrom(p, AiResponses)

\* a default that is none of the four statuses
statusDefaultOpen == "open"

\* status TEXT NOT NULL DEFAULT 'new'
statusDefault == "new"

\* the row INSERT INTO briefings writes; status and id take their defaults
briefingRow(pr) ==
    LET t == CurThreat(pr)
        a == CurAsset(pr)
        matched == \E i \in 1..Len(matching(a, pr.pool)) :
                       matching(a, pr.pool)[i] = t
    IN  [id |-> nextBriefingId, threat_id |-> t.id, asset_id |-> a.id,
         summary |-> pr.texts.summary, remediation |-> pr.texts.remediation,
         business_impact |-> pr.texts.businessImpact,
         priority_score |-> roundTenths(priority(t, matched),
                                        fallsShort(t, matched)),
         status |-> statusDefault, user_id |-> pr.user]

\* the INSERT of one pair; its failure is not caught by the handler
briefingInsert(p) ==
    LET pr == proc[p]
    IN  /\ pr.pc = "store"
        /\ IF referencesHold(CurThreat(pr).id, CurAsset(pr).id)
           THEN /\ briefings' = Append(briefings, briefingRow(pr))
                /\ nextBriefingId' = nextBriefingId + 1
                /\ proc' = [proc EXCEPT ![p] =
                       nextPair([pr EXCEPT !.generated = pr.generated + 1])]
           ELSE /\ proc' = [proc EXCEPT ![p] =
                       Respond(pr, 500, "FOREIGN KEY constraint failed", 0, <<>>)]
                /\ UNCHANGED <<briefings, nextBriefingId>>
        /\ UNCHANGED <<threats, assets, nextAssetId, prevRun>>

GenerateStep(p) ==
    \/ selectAssets(p)
    \/ selectThreats(p)
    \/ briefingSelect(p)
    \/ aiFails(p)
    \/ aiAnswers(p)
    \/ briefingInsert(p)

\* the statuses a caller puts in PATCH /:id/status
StatusInputs == {"resolved", "closed"}

\* no validation
validStatusAny(status) == status = status

\* ['new', 'acknowledged', 'in_progress', 'resolved'].includes(status)
validStatus(status) ==
    status \in {"new", "acknowledged", "in_progress", "resolved"}

\* UPDATE briefings SET status = ? WHERE id = ?
statusUpdated(rows, id, status) ==
    [i \in 1..Len(rows) |->
        IF rows[i].id = id THEN [rows[i] EXCEPT !.status = status] ELSE rows[i]]

\* briefings.patch('/:id/status')
updateBriefingStatus(p, id, status) ==
    /\ Free(p)
    /\ LET pr == [Idle EXCEPT !.kind = "status", !.cur = status]
       IN  IF ~validStatus(status)
           THEN /\ proc' = [proc EXCEPT ![p] =
                       Respond(pr, 400, "Invalid status", 0, <<>>)]
                /\ UNCHANGED briefings
           ELSE /\ briefings' = statusUpdated(briefings, id, status)
                /\ proc' = [proc EXCEPT ![p] = Respond(pr, 200, Null, 0, <<>>)]
    /\ prevRun' = NoRun
    /\ UNCHANGED <<threats, assets, nextAssetId, nextBriefingId>>

-----------------------------------------------------------------------------
Init ==
    /\ threats = <<>>
    /\ assets = <<>>
    /\ briefings = <<>>
    /\ nextAssetId = 1
    /\ nextBriefingId = 1
    /\ proc = [p \in Procs |-> Idle]
    /\ prevRun = NoRun

\* the names a caller can put in POST /ingest/:source
SourceNames == SourceSet \cup {"bogus"}

\* ingestion requests, handled one after another
NextIngest ==
    \/ StartIngestAll(1)
    \/ \E source \in SourceNames : StartIngestOne(1, source)
    \/ IngestStep(1)

SpecIngest == Init /\ [][NextIngest]_vars

\* The whole API, requests handled one after another.  The feeds serve one
\* identified record at a time here, so the threat table is bounded by the
\* catalog of the sources asked for: it holds up to two threats of severity
\* critical or high and one of neither.  Assets are registered by the
\* authenticated user; both callers generate, delete and update.
BriefSources == {"nvd", "github", "shodan"}

Owners == {1}

BriefFeeds(s) == {<<r>> : r \in {x \in Catalog(s) : x.shape = "ok" /\ x.id # Null}}

FetchOne(p) == FetchAnswers(p, BriefFeeds(proc[p].cur))

Next ==
    \/ \E source \in BriefSources : StartIngestOne(1, source)
    \/ ingestSource(1)
    \/ FetchOne(1)
    \/ AdapterReturns(1)
    \/ upsertSelect(1)
    \/ upsertInsert(1)
    \/ \E user \in Owners, body \in AssetBodies : createAsset(1, user, body)
    \/ \E user \in Users, id \in 1..MaxAssets : deleteAsset(1, user, id)
    \/ \E user \in Users : StartGenerate(1, user)
    \/ GenerateStep(1)
    \/ \E id \in 1..nextBriefingId, status \in StatusInputs :
           updateBriefingStatus(1, id, status)

Spec == Init /\ [][Next]_vars

\* A generateBriefings call handled by one worker while another worker
\* handles ingestion and asset requests.
OverlapSources == {"nvd"}

NextOverlap ==
    \/ \E user \in Users : StartGenerate(1, user)
    \/ GenerateStep(1)
    \/ \E source \in OverlapSources : StartIngestOne(2, source)
    \/ ingestSource(2)
    \/ FetchOne(2)
    \/ AdapterReturns(2)
    \/ upsertSelect(2)
    \/ upsertInsert(2)
    \/ \E user \in Owners, body \in AssetBodies : createAsset(2, user, body)
    \/ \E user \in Users, id \in 1..MaxAssets : deleteAsset(2, user, id)

SpecOverlap == Init /\ [][NextOverlap]_vars

\* Scoring: one threat is ingested, with any score of two decimals from 0.00
\* to 10.00 or none, from a GitHub advisory labelled high or from a Shodan
\* record; the authenticated user registers assets and generates.
ScoreInputs == (0..1000) \cup {NoScore}

ScoreSources == {"github", "shodan"}

ScoreRecords(s) ==
    IF s = "github"
    THEN {Raw("ok", "CVE-2024-0004", "GHSA-0004", "d10", score, "high",
              <<"a", "p">>, <<>>, 0, FALSE) : score \in ScoreInputs}
    ELSE {Raw("ok", "CVE-2024-0004", Null, "d10", score, Null,
              <<"a", "p">>, <<>>, 0, kev) : score \in ScoreInputs, kev \in BOOLEAN}

ScoreFeeds(s) ==
    IF threats = <<>> THEN {<<r>> : r \in ScoreRecords(s)} ELSE {<<>>}

FetchScored(p) == FetchAnswers(p, ScoreFeeds(proc[p].cur))

NextScore ==
    \/ \E source \in ScoreSources : StartIngestOne(1, source)
    \/ ingestSource(1)
    \/ FetchScored(1)
    \/ AdapterReturns(1)
    \/ upsertSelect(1)
    \/ upsertInsert(1)
    \/ \E user \in Owners, body \in AssetBodies : createAsset(1, user, body)
    \/ \E user \in Owners : StartGenerate(1, user)
    \/ selectAssets(1)
    \/ selectThreats(1)
    \/ briefingSelect(1)
    \/ aiAnswers(1)
    \/ briefingInsert(1)

SpecScore == Init /\ [][NextScore]_vars

\* Severity: the Shodan feed serves two records, the first with any score of
\* two decimals or none, the second with a score at or next to a threshold.
ScoreSteps == {NoScore, 0, 1, 399, 400, 699, 700, 899, 900, 1000}

SeverityFeeds ==
    IF threats # <<>> THEN {<<>>}
    ELSE {<<Raw("ok", "CVE-2024-0005", Null, "d11", a, Null, <<>>, <<>>, 0, FALSE),
            Raw("ok", "CVE-2024-0006", Null, "d12", b, Null, <<>>, <<>>, 0, FALSE)>> :
             a \in ScoreInputs, b \in ScoreSteps}

FetchSeverity(p) == FetchAnswers(p, SeverityFeeds)

NextSeverity ==
    \/ StartIngestOne(1, "shodan")
    \/ ingestSource(1)
    \/ FetchSeverity(1)
    \/ AdapterReturns(1)
    \/ upsertSelect(1)
    \/ upsertInsert(1)

SpecSeverity == Init /\ [][NextSeverity]_vars

\* Matching: GitHub serves up to four advisories labelled high, each naming a
\* vendor, a product or neither; their scores are not in the order of the
\* feed. The authenticated user registers assets and generates.
MatchTargets ==
    {<<<<"a", "p">>, <<>>>>,
     <<<<"a", "p", "x">>, <<>>>>,
     <<<<>>, <<"n", "g">>>>,
     <<<<>>, <<>>>>}

MatchIds == <<"CVE-2024-0021", "CVE-2024-0022", "CVE-2024-0023", "CVE-2024-0024">>

MatchScores == <<750, 980, 880, 910>>

MatchFeeds ==
    IF threats # <<>> THEN {<<>>}
    ELSE UNION {{[i \in 1..n |->
                     Raw("ok", MatchIds[i], Null, "d20", MatchScores[i], "high",
                         f[i][1], f[i][2], 0, FALSE)] :
                 f \in [1..n -> MatchTargets]} : n \in 1..Len(MatchIds)}

MatchBodies ==
    {Asset("web", <<"A", "p", "x">>, <<>>),
     Asset("lb", <<"A", "p">>, <<>>),
     Asset("app", <<>>, <<"N", "g", "x">>),
     Asset("db", <<>>, <<>>)}

FetchMatch(p) == FetchAnswers(p, MatchFeeds)

NextMatch ==
    \/ StartIngestOne(1, "github")
    \/ ingestSource(1)
    \/ FetchMatch(1)
    \/ AdapterReturns(1)
    \/ upsertSelect(1)
    \/ upsertInsert(1)
    \/ \E user \in Owners, body \in MatchBodies : createAsset(1, user, body)
    \/ \E user \in Owners : StartGenerate(1, user)
    \/ selectAssets(1)
    \/ selectThreats(1)
    \/ briefingSelect(1)
    \/ aiAnswers(1)
    \/ briefingInsert(1)

SpecMatch == Init /\ [][NextMatch]_vars

\* Owners: the authenticated user and the unauthenticated caller both
\* register, import and delete assets and generate briefings, on threats
\* ingested from NVD.
NextOwners ==
    \/ StartIngestOne(1, "nvd")
    \/ ingestSource(1)
    \/ FetchOne(1)
    \/ AdapterReturns(1)
    \/ upsertSelect(1)
    \/ upsertInsert(1)
    \/ \E user \in Users, body \in AssetBodies : createAsset(1, user, body)
    \/ \E user \in Users, blocks \in ImportBlocks : importAssets(1, user, blocks)
    \/ \E user \in Users, id \in 1..nextAssetId : deleteAsset(1, user, id)
    \/ \E user \in Users : StartGenerate(1, user)
    \/ selectAssets(1)
    \/ selectThreats(1)
    \/ briefingSelect(1)
    \/ aiAnswers(1)
    \/ briefingInsert(1)

SpecOwners == Init /\ [][NextOwners]_vars

\* Race: two workers each handle ingestion requests for NVD at the same
\* time; the feed serves one or two records of the catalog while the table
\* is empty.
RaceFeeds ==
    IF threats # <<>> THEN {<<>>}
    ELSE {<<r>> : r \in Catalog("nvd")}
             \cup {<<r, q>> : r \in Catalog("nvd"), q \in Catalog("nvd")}

FetchRace(p) == FetchAnswers(p, RaceFeeds)

NextRace ==
    \E p \in Procs :
        \/ StartIngestOne(p, "nvd")
        \/ ingestSource(p)
        \/ FetchRace(p)
        \/ AdapterReturns(p)
        \/ upsertSelect(p)
        \/ upsertInsert(p)

SpecRace == Init /\ [][NextRace]_vars

\* Two generations: worker 1 ingests from NVD and registers assets for the
\* authenticated user, and both workers handle generateBriefings requests
\* of that user at the same time.
NextTwice ==
    \/ StartIngestOne(1, "nvd")
    \/ ingestSource(1)
    \/ FetchOne(1)
    \/ AdapterReturns(1)
    \/ upsertSelect(1)
    \/ upsertInsert(1)
    \/ \E user \in Owners, body \in AssetBodies : createAsset(1, user, body)
    \/ \E p \in Procs :
           \/ \E user \in Owners : StartGenerate(p, user)
           \/ GenerateStep(p)

SpecTwice == Init /\ [][NextTwice]_vars

\* Answers: the text generator answers with any text of up to MaxWords
\* words, each a label in either case or another word; one threat is
\* ingested from NVD and the authenticated user registers assets and
\* generates.
ParseWords == {"SUMMARY:", "summary:", "REMEDIATION:", "IMPACT:", "w1"}

ParseResponses == SeqsUpTo(ParseWords, MaxWords)

aiSays(p) == aiAnswersFrom(p, ParseResponses)

NextParse ==
    \/ StartIngestOne(1, "nvd")
    \/ ingestSource(1)
    \/ FetchOne(1)
    \/ AdapterReturns(1)
    \/ upsertSelect(1)
    \/ upsertInsert(1)
    \/ \E user \in Owners, body \in AssetBodies : createAsset(1, user, body)
    \/ \E user \in Owners : StartGenerate(1, user)
    \/ selectAssets(1)
    \/ selectThreats(1)
    \/ briefingSelect(1)
    \/ aiSays(1)
    \/ briefingInsert(1)

SpecParse == Init /\ [][NextParse]_vars

\* Single-source ingestion and briefing generation with the steps of the
\* handlers taken eventually: a handler that can go on does go on, and a
\* database statement it awaits returns.  Nothing makes an upstream feed or
\* the text generator answer: the handlers await them without a timeout.
HandlerStep(p) ==
    \/ ingestSource(p)
    \/ AdapterReturns(p)
    \/ upsertSelect(p)
    \/ upsertInsert(p)
    \/ selectAssets(p)
    \/ selectThreats(p)
    \/ briefingSelect(p)
    \/ briefingInsert(p)

\* the upstream feed or the text generator answers, or fails
UpstreamStep(p) ==
    \/ FetchFails(p)
    \/ FetchOne(p)
    \/ aiFails(p)
    \/ aiAnswers(p)

NextTimely ==
    \/ \E source \in BriefSources : StartIngestOne(1, source)
    \/ \E user \in Owners, body \in AssetBodies : createAsset(1, user, body)
    \/ \E user \in Owners : StartGenerate(1, user)
    \/ HandlerStep(1)
    \/ UpstreamStep(1)

SpecTimely == Init /\ [][NextTimely]_vars /\ WF_vars(HandlerStep(1))

-----------------------------------------------------------------------------
(* Properties of ingestion *)

\* the threat rows source s gained since the request of worker p began
AddedBy(p, s) ==
    Cardinality({i \in (proc[p].req0 + 1)..Len(threats) : threats[i].source = s})

\* C1: with ingestion runs handled one after another, no two threat rows
\* share a (source, source_id) pair with a non-null source_id.
C1_UniquePair ==
    \A i, j \in 1..Len(threats) :
        (/\ i # j
         /\ threats[i].source = threats[j].source
         /\ threats[i].source_id = threats[j].source_id)
        => threats[i].source_id = Null

\* a run met a candidate whose pair was already stored and skipped it, with
\* the store holding other rows as well
C1_Witness ==
    /\ proc[1].pc = "done"
    /\ prevRun.ok
    /\ proc[1].skipped > 0
    /\ Len(threats) = 2

\* C2: a second ingestSource call for the same source, fetching the same
\* records as the call before it, adds no threat row and returns 0.
C2_SecondRunInsertsNothing ==
    proc[1].again => (Len(threats) = proc[1].rows0 /\ proc[1].count = 0)

\* C4: ingestAll always answers, with an entry for each of the six sources:
\* 0 for a source whose adapter failed, and for every other source the number
\* of rows it inserted; every source is attempted whatever failed before it.
C4_IngestAllNeverRaises ==
    (proc[1].kind = "ingestAll" /\ proc[1].pc = "done") =>
        /\ proc[1].resp.status = 200
        /\ proc[1].tried = SourceSet
        /\ DOMAIN proc[1].resp.results = SourceSet
        /\ \A s \in SourceSet :
              proc[1].resp.results[s] =
                  IF s \in proc[1].failed THEN 0 ELSE AddedBy(1, s)

\* the first source failed and the last one still inserted a row
C4_Witness ==
    /\ proc[1].kind = "ingestAll"
    /\ proc[1].pc = "done"
    /\ "nvd" \in proc[1].failed
    /\ "greynoise" \notin proc[1].failed
    /\ proc[1].resp.results["greynoise"] = 1

\* C9: an unknown source name is answered with a client error (4xx), and no
\* threat row is inserted.
C9_UnknownSourceClientError ==
    (/\ proc[1].kind = "ingestOne"
     /\ proc[1].pc = "done"
     /\ proc[1].tried \cap SourceSet = {}) =>
        /\ proc[1].resp.detail = "Unknown source"
        /\ proc[1].resp.status \in 400..499
        /\ Len(threats) = proc[1].req0

\* C10: an ingestSource call that returns, returns the number of rows it
\* inserted (its count is that number after every record); candidates whose
\* pair was already stored are not counted.
C10_CountIsInserted ==
    /\ proc[1].pc = "item" => proc[1].count = Len(threats) - proc[1].rows0
    /\ (/\ proc[1].kind = "ingestOne"
        /\ proc[1].pc = "done"
        /\ proc[1].resp.status = 200) =>
           proc[1].resp.n = Len(threats) - proc[1].req0

\* a call that inserted one candidate and skipped another
C10_Witness ==
    /\ proc[1].kind = "ingestOne"
    /\ proc[1].pc = "done"
    /\ proc[1].resp.status = 200
    /\ proc[1].resp.n = 1
    /\ proc[1].skipped = 1

\* the stored row with this id
ThreatById(id) == threats[CHOOSE i \in 1..Len(threats) : threats[i].id = id]
AssetById(id) == assets[CHOOSE i \in 1..Len(assets) : assets[i].id = id]

Covered(threatId, assetId) ==
    \E i \in 1..Len(briefings) :
        briefings[i].threat_id = threatId /\ briefings[i].asset_id = assetId

\* C3: with generateBriefings calls handled one after another, among asset,
\* ingestion and status requests, no two briefing rows share a
\* (threat_id, asset_id) pair; and a call whose two queries return what they
\* returned to the completed call just before it adds no row and reports
\* generated = 0.
C3_OneBriefingPerPair ==
    /\ \A i, j \in 1..Len(briefings) :
           (/\ briefings[i].threat_id = briefings[j].threat_id
            /\ briefings[i].asset_id = briefings[j].asset_id) => i = j
    /\ (proc[1].kind = "generate" /\ proc[1].again) =>
           /\ Len(briefings) = proc[1].b0
           /\ proc[1].generated = 0
           /\ proc[1].pc = "done" =>
                  proc[1].resp.status = 200 /\ proc[1].resp.n = 0

\* a repeated call ended, over a scope and a pool that gave two briefings
C3_Witness ==
    /\ proc[1].kind = "generate"
    /\ proc[1].pc = "done"
    /\ proc[1].again
    /\ Len(briefings) = 2

\* C5: when the text generator fails for a pair, the call still completes,
\* the pair is stored with the texts templated from the threat's and the
\* asset's fields, and every pair of the batch ends up with a briefing.
C5_FallbackPersisted ==
    (proc[1].kind = "generate" /\ proc[1].pc = "done" /\ proc[1].aiFailed # {}) =>
        /\ proc[1].resp.status = 200
        /\ \A pair \in proc[1].aiFailed :
              \E i \in 1..Len(briefings) :
                 LET b == briefings[i]
                     texts == fallbackTexts(ThreatById(pair[1]), AssetById(pair[2]))
                 IN  /\ b.threat_id = pair[1]
                     /\ b.asset_id = pair[2]
                     /\ b.summary = texts.summary
                     /\ b.remediation = texts.remediation
                     /\ b.business_impact = texts.businessImpact
        /\ \A k \in 1..Len(proc[1].userAssets) :
              LET a == proc[1].userAssets[k]
                  plan == toProcess(a, proc[1].pool)
              IN  \A n \in 1..Len(plan) : Covered(plan[n].id, a.id)

\* the generator failed for the first pair of a batch and answered for the
\* second; both are stored
C5_Witness ==
    /\ proc[1].kind = "generate"
    /\ proc[1].pc = "done"
    /\ proc[1].aiFailed # {}
    /\ proc[1].aiCalls = 2
    /\ Cardinality(proc[1].aiFailed) = 1
    /\ Len(briefings) = 2
    /\ briefings[1].summary.form = "summary template"
    /\ briefings[2].summary.form = "text"

\* C6: a generateBriefings call whose scope has assets and that found a
\* threat of severity critical or high always completes with status 200.
C6_NoBatchError ==
    (/\ proc[1].kind = "generate"
     /\ proc[1].pc = "done"
     /\ proc[1].hadAssets
     /\ proc[1].hadThreats) => proc[1].resp.status = 200

InScope(user) == \E i \in 1..Len(assets) : assets[i].user_id = user

Qualifying == \E i \in 1..Len(threats) : threats[i].severity \in {"critical", "high"}

\* C7: generateBriefings answers with the "no assets" error when the
\* caller's scope holds no asset, and with the other, "no threats" error when
\* it does but no threat is of severity critical or high; a call answered
\* with either has created no briefing and has not called the text generator.
C7_PreconditionErrors ==
    (proc[1].kind = "generate" /\ proc[1].pc = "done") =>
        /\ ~InScope(proc[1].user) =>
              /\ proc[1].resp.status = 400
              /\ proc[1].resp.detail = "No assets registered. Add assets first."
        /\ (InScope(proc[1].user) /\ ~Qualifying) =>
              /\ proc[1].resp.status = 400
              /\ proc[1].resp.detail = "No threats ingested. Ingest threats first."
        /\ proc[1].resp.status = 400 =>
              Len(briefings) = proc[1].b0 /\ proc[1].aiCalls = 0

\* the scope has an asset and the store a threat, but none of severity
\* critical or high
C7_Witness ==
    /\ proc[1].kind = "generate"
    /\ proc[1].pc = "done"
    /\ proc[1].resp.detail = "No threats ingested. Ingest threats first."
    /\ InScope(proc[1].user)
    /\ Len(threats) > 0

\* C8: an updateBriefingStatus request whose status is none of new,
\* acknowledged, in_progress and resolved is answered with a validation
\* error and changes no briefing row.
C8_InvalidStatusRejected ==
    [][(/\ proc'[1].kind = "status"
        /\ proc'[1].pc = "done"
        /\ proc'[1].cur \notin {"new", "acknowledged", "in_progress", "resolved"}) =>
           /\ proc'[1].resp.status = 400
           /\ proc'[1].resp.detail = "Invalid status"
           /\ briefings' = briefings]_vars

\* an invalid status was rejected with a briefing stored whose status had
\* been updated before
C8_Witness ==
    /\ proc[1].kind = "status"
    /\ proc[1].pc = "done"
    /\ proc[1].resp.status = 400
    /\ \E i \in 1..Len(briefings) : briefings[i].status = "resolved"

\* C11: no step changes a stored threat row (rows are only added), and an
\* upsert whose candidate's (source, source_id) is already stored writes
\* nothing and is not counted, whatever the candidate's other fields are.
C11_StoredRowsUnchanged ==
    [][/\ Len(threats') >= Len(threats)
       /\ \A i \in 1..Len(threats) : threats'[i] = threats[i]
       /\ (proc[1].pc = "item" /\ proc'[1].skipped = proc[1].skipped + 1) =>
              threats' = threats /\ proc'[1].count = proc[1].count]_vars

\* a call skipped a fetched record whose candidate has the pair of a stored
\* row and another title
C11_Witness ==
    /\ proc[1].pc = "done"
    /\ proc[1].skipped = 1
    /\ Len(proc[1].fetched) = 2
    /\ LET item == adapterItem(proc[1].cur, proc[1].fetched[2], TRUE)
       IN  /\ item.out = "cand"
           /\ \E j \in 1..Len(threats) :
                  /\ threats[j].source = item.t.source
                  /\ threats[j].source_id = item.t.source_id
                  /\ threats[j].title # item.t.title

\* C12: every request that was started completes.
C12_EveryRequestCompletes == ~Free(1) ~> Free(1)

\* the weighted sum of a threat for an asset, in hundredths
WeightedSum(t, a) ==
    (IF t.cvss_score = NoScore \/ t.cvss_score = 0 THEN 500 ELSE t.cvss_score)
    + 200 * t.exploits_available + 300 * t.actively_exploited
    + (IF isMatch(a, t) THEN 200 ELSE 0)

\* C13: the priority stored on a briefing is min(10, 10 * ((cvss_score or 5)
\* / 10 + 0.2 if exploits are available + 0.3 if actively exploited + 0.2 if
\* the asset matches)) rounded to the nearest tenth.
C13_PriorityFormula ==
    \A i \in 1..Len(briefings) :
        LET sum == WeightedSum(ThreatById(briefings[i].threat_id),
                               AssetById(briefings[i].asset_id))
        IN  briefings[i].priority_score =
                ((IF sum > 1000 THEN 1000 ELSE sum) + 5) \div 10

\* C14: every priority stored on a briefing lies between 0.0 and 10.0 (the
\* model holds it as a whole number of tenths).
C14_PriorityInRange ==
    \A i \in 1..Len(briefings) : briefings[i].priority_score \in 0..100

\* a threat of score 9.8 with exploits, actively exploited, for an asset it
\* matches: the sum 16.8 is stored as 10.0
C14_Witness ==
    /\ Len(briefings) = 1
    /\ briefings[1].priority_score = 100
    /\ ThreatById(briefings[1].threat_id).cvss_score = 980
    /\ ThreatById(briefings[1].threat_id).actively_exploited = 1
    /\ isMatch(AssetById(briefings[1].asset_id), ThreatById(briefings[1].threat_id))

\* the severity the thresholds give to a score in hundredths
Expected(score) ==
    CASE score = NoScore \/ score = 0 -> "medium"
      [] score >= 900 -> "critical"
      [] score >= 700 /\ score < 900 -> "high"
      [] score >= 400 /\ score < 700 -> "medium"
      [] OTHER -> "low"

\* a call that fetched two records and inserted a row for each
InsertedBoth ==
    /\ proc[1].pc = "done"
    /\ Len(proc[1].fetched) = 2
    /\ proc[1].count = 2
    /\ Len(threats) = 2

\* C15: the row stored for a record carries the severity of its score:
\* medium for none or zero, critical from 9.0, high from 7.0 to below 9.0,
\* medium from 4.0 to below 7.0, low for any other score.
C15_SeverityThresholds ==
    InsertedBoth =>
        \A i \in 1..2 : threats[i].severity = Expected(proc[1].fetched[i].score)

\* scores at both sides of a threshold: 8.99 is high and 9.0 critical
C15_Witness ==
    /\ InsertedBoth
    /\ proc[1].fetched[1].score = 899
    /\ threats[1].severity = "high"
    /\ proc[1].fetched[2].score = 900
    /\ threats[2].severity = "critical"

Rank(severity) ==
    CASE severity = "low" -> 1
      [] severity = "medium" -> 2
      [] severity = "high" -> 3
      [] severity = "critical" -> 4

\* the severities of the two rows are in the order of the two scores, for
\* scores from lowest on
MonotonicFrom(lowest) ==
    InsertedBoth =>
        \A i, j \in 1..2 :
            (/\ proc[1].fetched[i].score >= lowest
             /\ proc[1].fetched[i].score <= proc[1].fetched[j].score) =>
                Rank(threats[i].severity) <= Rank(threats[j].severity)

\* C16 as stated: the severity never goes down as the score goes up from 0.0
\* (zero included) to 10.0.
C16_MonotonicFromZero == MonotonicFrom(0)

\* C16 amended: the severity never goes down as the score goes up from 0.01
\* to 10.0.
C16_MonotonicAboveZero == MonotonicFrom(1)

\* two scores at both sides of the lowest threshold: 3.99 is low, 4.0 medium
C16_Witness ==
    /\ InsertedBoth
    /\ proc[1].fetched[1].score = 399
    /\ proc[1].fetched[2].score = 400
    /\ Rank(threats[1].severity) < Rank(threats[2].severity)

\* text part occurs in text whole, whatever the case of the letters
Within(part, whole) ==
    \E before, after \in 0..Len(whole) :
        /\ before + Len(part) + after = Len(whole)
        /\ \A k \in 1..Len(part) :
               LowerChar(part[k]) = LowerChar(whole[before + k])

\* the asset names a vendor or a product, and its vendor contains the
\* threat's vendor or its product contains the threat's product
Matches(a, t) ==
    /\ (a.vendor # <<>> \/ a.product # <<>>)
    /\ \/ (a.vendor # <<>> /\ t.affected_vendor # <<>>
            /\ Within(t.affected_vendor, a.vendor))
       \/ (a.product # <<>> /\ t.affected_product # <<>>
            /\ Within(t.affected_product, a.product))

\* the stored priority, in tenths, of a threat that is neither exploitable nor
\* exploited and has a score of one decimal
Weighed(t, matched) == Min(100, (t.cvss_score \div 10) + (IF matched THEN 20 ELSE 0))

\* C17: an asset matches a threat exactly when it names a vendor or a product
\* and its vendor contains the threat's vendor or its product the threat's
\* product, without regard to case: every briefing carries the match weight
\* exactly in that case.
C17_MatchRule ==
    \A i \in 1..Len(briefings) :
        \A j \in 1..Len(threats), k \in 1..Len(assets) :
            (threats[j].id = briefings[i].threat_id /\ assets[k].id = briefings[i].asset_id) =>
                briefings[i].priority_score = Weighed(threats[j], Matches(assets[k], threats[j]))

\* one direction only: the asset "Ap" got a briefing on a threat to "apx"
\* without the match weight, and the asset "Apx" would match a threat to "ap"
C17_Witness ==
    /\ Len(briefings) > 0
    /\ \E j \in 1..Len(threats), k \in 1..Len(assets) :
           /\ threats[j].id = briefings[1].threat_id
           /\ assets[k].id = briefings[1].asset_id
           /\ assets[k].vendor = <<"A", "p">>
           /\ threats[j].affected_vendor = <<"a", "p", "x">>
           /\ briefings[1].priority_score = threats[j].cvss_score \div 10
    /\ Matches(Asset("web", <<"A", "p", "x">>, <<>>),
               [affected_vendor |-> <<"a", "p">>, affected_product |-> <<>>])

\* a generation that completed
Generated == proc[1].kind = "generate" /\ proc[1].pc = "done" /\ proc[1].resp.status = 200

\* the threats of the briefings on an asset, in the order they were written
BriefedFor(assetId) ==
    LET own == SelectSeq(briefings, LAMBDA b : b.asset_id = assetId)
    IN  [i \in 1..Len(own) |-> own[i].threat_id]

Ids(rows) == [i \in 1..Len(rows) |-> rows[i].id]

MatchesOf(a, pool) == SelectSeq(pool, LAMBDA t : Matches(a, t))

First(n, rows) == SubSeq(rows, 1, IF Len(rows) < n THEN Len(rows) ELSE n)

\* C18: after a generation, an asset that matches no threat of the pool has
\* briefings on exactly the first two threats of the pool, or on the whole
\* pool if it holds fewer.
C18_FallbackFirstTwo ==
    Generated =>
        \A k \in 1..Len(proc[1].userAssets) :
            LET a == proc[1].userAssets[k]
            IN  MatchesOf(a, proc[1].pool) = <<>> =>
                    BriefedFor(a.id) = Ids(First(2, proc[1].pool))

\* an asset without a match, a pool of three or more: two briefings
C18_Witness ==
    /\ Generated
    /\ Len(proc[1].pool) >= 3
    /\ MatchesOf(proc[1].userAssets[1], proc[1].pool) = <<>>
    /\ Len(BriefedFor(proc[1].userAssets[1].id)) = 2

\* C19: after a generation, an asset that matches threats of the pool has
\* briefings on the first three of the matching threats (all of them if
\* fewer), in the order of the pool, which is by descending score.
C19_MatchingFirstThree ==
    Generated =>
        /\ \A i, j \in 1..Len(proc[1].pool) :
               i < j => proc[1].pool[i].cvss_score >= proc[1].pool[j].cvss_score
        /\ \A k \in 1..Len(proc[1].userAssets) :
               LET a == proc[1].userAssets[k]
               IN  MatchesOf(a, proc[1].pool) # <<>> =>
                       BriefedFor(a.id) = Ids(First(3, MatchesOf(a, proc[1].pool)))

\* four matching threats, three briefings, the pool not in the order of the
\* table
C19_Witness ==
    /\ Generated
    /\ Len(MatchesOf(proc[1].userAssets[1], proc[1].pool)) = 4
    /\ Len(BriefedFor(proc[1].userAssets[1].id)) = 3
    /\ Ids(proc[1].pool) # Ids(threats)

\* C20: every briefing references a threat and an asset that exist, also
\* when assets are deleted while briefings are generated.
C20_ReferencesExist ==
    \A i \in 1..Len(briefings) :
        /\ \E j \in 1..Len(threats) : threats[j].id = briefings[i].threat_id
        /\ \E k \in 1..Len(assets) : assets[k].id = briefings[i].asset_id

\* an asset was deleted while a briefing on it was generated: the briefing
\* written before went with it, and the one written after was refused
C20_Witness ==
    /\ proc[2].kind = "deleteAsset"
    /\ proc[1].kind = "generate"
    /\ proc[1].pc = "done"
    /\ proc[1].resp.status = 500
    /\ nextBriefingId > 1
    /\ assets = <<>>
    /\ briefings = <<>>

\* C21: every briefing's status is one of new, acknowledged, in_progress and
\* resolved; a briefing is created with status new, and only an
\* updateBriefingStatus request changes the status of a stored briefing.
C21_StatusOnlyByUpdate ==
    [][/\ \A j \in 1..Len(briefings') :
              briefings'[j].status \in {"new", "acknowledged", "in_progress", "resolved"}
       /\ \A j \in 1..Len(briefings') :
              (\A i \in 1..Len(briefings) : briefings[i].id # briefings'[j].id) =>
                  briefings'[j].status = "new"
       /\ \A i \in 1..Len(briefings), j \in 1..Len(briefings') :
              (/\ briefings[i].id = briefings'[j].id
               /\ briefings[i].status # briefings'[j].status) =>
                  proc'[1].kind = "status"]_vars

\* a generation completed with a briefing stored whose status had been
\* updated before
C21_Witness ==
    /\ proc[1].kind = "generate"
    /\ proc[1].pc = "done"
    /\ \E i \in 1..Len(briefings) : briefings[i].status = "resolved"

\* C22: every briefing has the owner of the asset it is about, the
\* unauthenticated caller's briefings having none like their assets.
C22_OwnerOfAsset ==
    \A i \in 1..Len(briefings), k \in 1..Len(assets) :
        assets[k].id = briefings[i].asset_id =>
            briefings[i].user_id = assets[k].user_id

\* the unauthenticated caller generated a briefing on an imported asset
C22_Witness ==
    /\ proc[1].kind = "generate"
    /\ proc[1].pc = "done"
    /\ proc[1].user = NoUser
    /\ proc[1].generated > 0
    /\ Len(assets) = 2
    /\ \E i \in 1..Len(briefings) : briefings[i].user_id = NoUser

\* the rows that hold the pair of candidate t
RowsOfPair(t) ==
    {i \in 1..Len(threats) :
        threats[i].source = t.source /\ threats[i].source_id = t.source_id}

\* C23: the INSERT of a run that found no row for its pair is not refused
\* when the other run has stored the pair in between: it adds a second row
\* for the pair and is counted.
C23_StaleCheckInserts ==
    [][\A p \in Procs :
          (/\ proc[p].pc = "insert"
           /\ proc'[p].pc # "insert"
           /\ proc[p].cand.title # Null
           /\ RowsOfPair(proc[p].cand) # {}) =>
              /\ Len(threats') = Len(threats) + 1
              /\ threats'[Len(threats')].source = proc[p].cand.source
              /\ threats'[Len(threats')].source_id = proc[p].cand.source_id
              /\ proc'[p].count = proc[p].count + 1]_vars

\* two rows for the same pair, one inserted by each run
C23_Witness ==
    /\ \E i, j \in 1..Len(threats) :
           /\ i # j
           /\ threats[i].source = threats[j].source
           /\ threats[i].source_id # Null
           /\ threats[i].source_id = threats[j].source_id
    /\ proc[1].kind = "ingestOne" /\ proc[1].count > 0
    /\ proc[2].kind = "ingestOne" /\ proc[2].count > 0

\* the briefings on threat t and asset a
BriefingsOn(t, a) ==
    {i \in 1..Len(briefings) :
        briefings[i].threat_id = t /\ briefings[i].asset_id = a}

\* C24: with two generateBriefings requests of the same scope handled at
\* the same time, no (threat_id, asset_id) pair has more than one briefing.
C24_OnePerPairWhenOverlapped ==
    \A i \in 1..Len(briefings) :
        Cardinality(BriefingsOn(briefings[i].threat_id, briefings[i].asset_id)) <= 1

\* C25: every threat row has a source_id that is neither null nor empty,
\* whatever identifier the upstream record had or lacked.
C25_SourceIdPresent ==
    \A i \in 1..Len(threats) : threats[i].source_id \notin {Null, ""}

\* C26: every threat row's severity is one of critical, high, medium and
\* low, also when its source supplied the label.
C26_SeverityEnumerated ==
    \A i \in 1..Len(threats) :
        threats[i].severity \in {"critical", "high", "medium", "low"}

\* no summary can be taken from text: it has no SUMMARY label, or nothing
\* stands between its first SUMMARY label and a REMEDIATION label or the end
NoSummary(text) ==
    \A i \in 1..Len(text) :
        (/\ text[i] \in {"SUMMARY:", "summary:"}
         /\ \A h \in 1..(i - 1) : text[h] \notin {"SUMMARY:", "summary:"}) =>
            (i = Len(text) \/ text[i + 1] = "REMEDIATION:")

\* a generation that wrote one briefing, from an answer of the generator
WroteAnswer ==
    /\ proc[1].kind = "generate"
    /\ proc[1].pc = "done"
    /\ proc[1].generated = 1
    /\ proc[1].aiCalls = 1
    /\ Len(briefings) = proc[1].b0 + 1

\* C27: the briefing written from an answer from which no summary can be
\* taken has the first 200 characters of the answer as its summary, and an
\* empty remediation and an empty business impact, whatever other labels the
\* answer holds.
C27_NoSummaryLeavesRestEmpty ==
    (WroteAnswer /\ NoSummary(proc[1].said)) =>
        LET b == briefings[Len(briefings)]
        IN  /\ b.summary.words = First(SummaryLimit, proc[1].said)
            /\ b.remediation.words = <<>>
            /\ b.business_impact.words = <<>>

\* the weights of threat t other than the match weight, in hundredths
OwnWeights(t) ==
    (IF t.cvss_score = NoScore THEN 500 ELSE t.cvss_score)
        + (IF t.exploits_available = 1 THEN 200 ELSE 0)
        + (IF t.actively_exploited = 1 THEN 300 ELSE 0)

\* stored, in tenths, is sum, in hundredths, rounded to a tenth either way
RoundedFrom(stored, sum) == stored * 10 >= sum - 5 /\ stored * 10 <= sum + 5

\* C28: the priority stored on a briefing holds the match weight of 0.2
\* (2.0 of the 10) exactly when its asset matches its threat by vendor or
\* product; a briefing on a threat taken as a fallback holds none.
C28_BonusIffMatched ==
    \A i \in 1..Len(briefings) :
        \A j \in 1..Len(threats), k \in 1..Len(assets) :
            (threats[j].id = briefings[i].threat_id /\ assets[k].id = briefings[i].asset_id) =>
                IF Matches(assets[k], threats[j])
                THEN RoundedFrom(briefings[i].priority_score,
                                 Min(1000, OwnWeights(threats[j]) + 200))
                ELSE RoundedFrom(briefings[i].priority_score,
                                 Min(1000, OwnWeights(threats[j])))

\* a briefing on a fallback threat of score 7.5: priority 7.5, not 9.5
C28_Witness ==
    /\ Len(briefings) = 1
    /\ Len(assets) = 1
    /\ assets[1].vendor = <<>>
    /\ Len(threats) = 1
    /\ threats[1].cvss_score = 750
    /\ threats[1].exploits_available = 0
    /\ briefings[1].priority_score = 75

\* C29: when a generateBriefings call, handled with no other request in
\* between, has completed, every asset of the caller's scope has a briefing,
\* whether a threat matches it or not.
C29_EveryAssetBriefed ==
    (proc[1].kind = "generate" /\ proc[1].pc = "done" /\ proc[1].resp.status = 200) =>
        \A k \in 1..Len(assets) :
            assets[k].user_id = proc[1].user =>
                \E i \in 1..Len(briefings) : briefings[i].asset_id = assets[k].id

\* a call completed for an asset without vendor and product, which no
\* threat matches
C29_Witness ==
    /\ proc[1].kind = "generate"
    /\ proc[1].pc = "done"
    /\ proc[1].resp.status = 200
    /\ proc[1].generated > 0
    /\ Len(assets) = 1
    /\ assets[1].vendor = <<>>
    /\ assets[1].product = <<>>
    /\ assets[1].user_id = proc[1].user
    /\ \E i \in 1..Len(briefings) : briefings[i].asset_id = assets[1].id

\* C30: when an ingestAll call has ended, the count reported for each source
\* is the number of rows that source gained during the call, also for a
\* source whose adapter failed after inserting rows, and the total is the
\* number of rows the call added.
C30_ResultsAreRowsAdded ==
    (proc[1].kind = "ingestAll" /\ proc[1].pc = "done") =>
        /\ \A s \in DOMAIN proc[1].resp.results :
               proc[1].resp.results[s] = AddedBy(1, s)
        /\ proc[1].resp.n = Len(threats) - proc[1].req0

====
